---- MODULE Spec2Model ----
(***************************************************************************)
(* A model of analyze_track_files.py: the binary header decoders           *)
(* (read_3do_header, read_mip_header) and the reference resolver           *)
(* (collect_all_3do_files, collect_all_mip_files, get_unused_mip_files).   *)
(*                                                                         *)
(* Bytes and characters are the integers 0..255 (Latin-1 maps byte b to    *)
(* code point b); a file name, a name block and a file's contents are      *)
(* sequences of them.  A file is [exists, data]; a directory maps file     *)
(* names to files.                                                         *)
(***************************************************************************)
EXTENDS Integers, Sequences, FiniteSets, TLC

VARIABLES
    file,             \* the file handed to the last decoder call
    enc,              \* decoder runs: the lists the file was encoded from
    hdr,              \* outcome of the last read_3do_header call
    mip_hdr,          \* outcome of the last read_mip_header call
    dir,              \* folder_path: file name -> file
    src,              \* the lists each file of dir was encoded from
    fn,               \* the function the caller invokes
    track_file,       \* collect_all_3do_files: argument
    additional_files, \* collect_all_3do_files: argument, a reference into heap
    heap,             \* the list objects: the shared default list, the
                      \* caller's list, the list built by the call
    to_process,       \* collect_all_3do_files: local, a reference into heap
    all_3do_files,    \* collect_all_3do_files: local set
    decoded,          \* the names whose header the running call decoded
    three_do_files,   \* collect_all_mip_files: argument
    idx,              \* collect_all_mip_files: position of the for loop
    all_mip_files,    \* collect_all_mip_files: local set
    listing,          \* get_unused_mip_files: os.listdir(folder_path)
    used_mip_files,   \* get_unused_mip_files: argument
    result,           \* the list the last call returned
    memo,             \* the calls completed so far, with the set each returned
    calls,            \* number of calls made
    pc                \* position of the running call

vars == <<file, enc, hdr, mip_hdr, dir, src, fn, track_file, additional_files,
          heap, to_process, all_3do_files, decoded, three_do_files, idx,
          all_mip_files, listing, used_mip_files, result, memo, calls, pc>>

decoderVars == <<file, enc, hdr, mip_hdr>>
folderVars == <<dir, src, listing>>
closureVars == <<to_process, all_3do_files, decoded>>
mipVars == <<idx, all_mip_files>>
argVars == <<fn, track_file, additional_files, three_do_files, used_mip_files>>
callVars == <<memo, calls>>

(***************************************************************************)
(* Program constants.                                                      *)
(***************************************************************************)
SkipLen == 8         \* f.seek(8)
CountLen == 4        \* f.read(4)
NameLen == 8         \* f.read(8)
NUL == 0             \* '\x00'

Ext_mip == <<46, 109, 105, 112>>     \* '.mip'
Ext_3do == <<46, 51, 100, 111>>      \* '.3do'

Min(a, b) == IF a <= b THEN a ELSE b

(***************************************************************************)
(* Files.                                                                  *)
(***************************************************************************)
NoFile == [exists |-> FALSE, data |-> <<>>]
FileOf(bytes) == [exists |-> TRUE, data |-> bytes]

\* f.read(n) at offset pos: at most n bytes, fewer (or none) at end of file.
Read(data, pos, n) == SubSeq(data, pos + 1, Min(pos + n, Len(data)))

\* struct.unpack('I', b)[0]: struct.error unless b has exactly 4 bytes; the
\* value is the unsigned 32-bit integer in the machine's (little-endian)
\* byte order.
UnpackFails(b) == Len(b) # CountLen
Unpack(b) == b[1] + 256 * b[2] + 65536 * b[3] + 16777216 * b[4]

\* bytes.decode('latin1'): byte b becomes the character with code point b.
DecodeLatin1(b) == [i \in 1..Len(b) |-> b[i]]

\* str.strip('\x00'): leading and trailing NULs removed.
RECURSIVE LStrip(_)
LStrip(s) == IF s # <<>> /\ Head(s) = NUL THEN LStrip(Tail(s)) ELSE s
RECURSIVE RStrip(_)
RStrip(s) ==
    IF s # <<>> /\ s[Len(s)] = NUL THEN RStrip(SubSeq(s, 1, Len(s) - 1)) ELSE s
StripLeadingOnly(s) == LStrip(s)
Strip(s) == RStrip(LStrip(s))

\* str.isprintable() on Latin-1 text.
IsPrintableChar(c) == (c >= 32 /\ c <= 126) \/ (c >= 161 /\ c <= 255 /\ c # 173)
IsPrintable(s) == \A i \in 1..Len(s) : IsPrintableChar(s[i])
ContainsNul(s) == \E i \in 1..Len(s) : s[i] = NUL

\* The name decoded from the block read at offset pos.
NameAt(data, pos) == Strip(DecodeLatin1(Read(data, pos, NameLen)))

InvalidNameNulOnly(three_do_file) == ContainsNul(three_do_file)

\* Line 28: the .3do name is rejected (printed as invalid and skipped).
InvalidName(three_do_file) ==
    ContainsNul(three_do_file) \/ ~IsPrintable(three_do_file)

\* Lines 17-19: the mip loop.
MipLoop(data, num_mip_files) ==
    [i \in 1..num_mip_files |->
        NameAt(data, SkipLen + 3 * CountLen + NameLen * (i - 1)) \o Ext_mip]

\* Lines 26-31: the 3do loop from iteration i on, reading at offset pos.
RECURSIVE ThreeDoLoop(_, _, _, _)
ThreeDoLoop(data, pos, i, num_3do_files) ==
    IF i > num_3do_files THEN <<>>
    ELSE LET three_do_file == NameAt(data, pos)
             rest == ThreeDoLoop(data, pos + NameLen, i + 1, num_3do_files)
         IN  IF InvalidName(three_do_file) THEN rest
             ELSE <<three_do_file \o Ext_3do>> \o rest

\* Lines 10-33: the body of the try block.  The outcome is a value or the
\* exception the body ends with.
Body3do(f) ==
    IF ~f.exists THEN [exc |-> "IOError"]
    ELSE LET b1 == Read(f.data, SkipLen, CountLen)
             b2 == Read(f.data, SkipLen + CountLen, CountLen)
             b3 == Read(f.data, SkipLen + 2 * CountLen, CountLen)
         IN  IF UnpackFails(b1) \/ UnpackFails(b2) \/ UnpackFails(b3)
             THEN [exc |-> "struct.error"]
             ELSE LET num_mip_files == Unpack(b1)
                      num_pmp_files == Unpack(b2)
                      num_3do_files == Unpack(b3)
                      pos3do == SkipLen + 3 * CountLen
                                + NameLen * (num_mip_files + num_pmp_files)
                  IN  [exc |-> "none",
                       mip_files |-> MipLoop(f.data, num_mip_files),
                       three_do_files |->
                           ThreeDoLoop(f.data, pos3do, 1, num_3do_files)]

Caught3doStructOnly(e) == e = "struct.error"

\* Line 34: the exceptions read_3do_header's except clause catches.
Caught3do(e) == e \in {"IOError", "struct.error"}

\* Line 48: the exceptions read_mip_header's except clause catches.
CaughtMip(e) == e \in {"IOError", "struct.error"}

EmptyPair == [raised |-> FALSE, mip_files |-> <<>>, three_do_files |-> <<>>]

\* read_3do_header(file_path), on the file the path names.
read_3do_header(f) ==
    LET r == Body3do(f)
    IN  IF r.exc = "none"
        THEN [raised |-> FALSE, mip_files |-> r.mip_files,
              three_do_files |-> r.three_do_files]
        ELSE IF Caught3do(r.exc) THEN EmptyPair
        ELSE [raised |-> TRUE, mip_files |-> <<>>, three_do_files |-> <<>>]

\* read_mip_header(file_path): width, height, or (None, None).
AbsentMip == [raised |-> FALSE, absent |-> TRUE, width |-> 0, height |-> 0]

read_mip_header(f) ==
    LET b1 == Read(f.data, SkipLen, CountLen)
        b2 == Read(f.data, SkipLen + CountLen, CountLen)
        exc == IF ~f.exists THEN "IOError"
               ELSE IF UnpackFails(b1) \/ UnpackFails(b2) THEN "struct.error"
               ELSE "none"
    IN  IF exc = "none"
        THEN [raised |-> FALSE, absent |-> FALSE,
              width |-> Unpack(b1), height |-> Unpack(b2)]
        ELSE IF CaughtMip(exc) THEN AbsentMip
        ELSE [raised |-> TRUE, absent |-> TRUE, width |-> 0, height |-> 0]

(***************************************************************************)
(* The .3do file layout, as an encoder: 8 ignored bytes, three             *)
(* little-endian u32 counts, then the mip, pmp and 3do name blocks, each   *)
(* name right-padded with NULs to 8 bytes.                                 *)
(***************************************************************************)
Prefix == [i \in 1..SkipLen |-> 88]
Pack(n) == <<n % 256, (n \div 256) % 256, (n \div 65536) % 256,
             (n \div 16777216) % 256>>
Pad(name) == name \o [i \in 1..(NameLen - Len(name)) |-> NUL]
RECURSIVE Blocks(_)
Blocks(names) ==
    IF names = <<>> THEN <<>> ELSE Pad(Head(names)) \o Blocks(Tail(names))
Encode(mips, pmps, tdos) ==
    Prefix \o Pack(Len(mips)) \o Pack(Len(pmps)) \o Pack(Len(tdos))
        \o Blocks(mips) \o Blocks(pmps) \o Blocks(tdos)

(***************************************************************************)
(* The reference resolver.                                                 *)
(***************************************************************************)
Range(s) == {s[i] : i \in 1..Len(s)}

\* open(os.path.join(folder_path, name), 'rb'): the file of that name, if any.
Lookup(d, name) == IF name \in DOMAIN d THEN d[name] ELSE NoFile

\* list(a_set): the members, each once, in an order the caller cannot rely on.
Orderings(S) == {s \in [1..Cardinality(S) -> S] : Range(s) = S}

RemoveAt(s, i) == SubSeq(s, 1, i - 1) \o SubSeq(s, i + 1, Len(s))

\* Line 61: to_process.pop() takes the last item.
PopIndex(list) == Len(list)

\* A reference is marked as seen when it is pushed, so its own header is
\* never read.
LoopBodyMarkOnPush(d, list, all, i) ==
    LET current_file == list[i]
        popped == RemoveAt(list, i)
    IN  IF current_file \in all
        THEN [to_process |-> popped, all_3do_files |-> all, read |-> FALSE,
              hdr |-> EmptyPair]
        ELSE LET h == read_3do_header(Lookup(d, current_file))
                 added == all \cup {current_file}
                 NotSeen(ref_3do) == ref_3do \notin added
             IN  [to_process |->
                      popped \o SelectSeq(h.three_do_files, NotSeen),
                  all_3do_files |-> added \cup Range(h.three_do_files),
                  read |-> TRUE, hdr |-> h]

\* The test of line 62 is missing: a popped item is always decoded.
LoopBodyNoVisitedCheck(d, list, all, i) ==
    LET current_file == list[i]
        h == read_3do_header(Lookup(d, current_file))
        added == all \cup {current_file}
        NotSeen(ref_3do) == ref_3do \notin added
    IN  [to_process |->
             RemoveAt(list, i) \o SelectSeq(h.three_do_files, NotSeen),
         all_3do_files |-> added, read |-> TRUE, hdr |-> h]

\* The references replace the worklist instead of extending it.
LoopBodyReplaceWorklist(d, list, all, i) ==
    LET current_file == list[i]
        popped == RemoveAt(list, i)
    IN  IF current_file \in all
        THEN [to_process |-> popped, all_3do_files |-> all, read |-> FALSE,
              hdr |-> EmptyPair]
        ELSE LET h == read_3do_header(Lookup(d, current_file))
                 added == all \cup {current_file}
                 NotSeen(ref_3do) == ref_3do \notin added
             IN  [to_process |-> SelectSeq(h.three_do_files, NotSeen),
                  all_3do_files |-> added, read |-> TRUE, hdr |-> h]

\* Lines 61-67 with the item at position i taken: the worklist, the set and
\* the header read (if one was read) after one iteration of the while loop.
LoopBody(d, list, all, i) ==
    LET current_file == list[i]
        popped == RemoveAt(list, i)
    IN  IF current_file \in all
        THEN [to_process |-> popped, all_3do_files |-> all, read |-> FALSE,
              hdr |-> EmptyPair]
        ELSE LET h == read_3do_header(Lookup(d, current_file))
                 added == all \cup {current_file}
                 NotSeen(ref_3do) == ref_3do \notin added
             IN  [to_process |->
                      popped \o SelectSeq(h.three_do_files, NotSeen),
                  all_3do_files |-> added, read |-> TRUE, hdr |-> h]

\* The whole while loop of lines 60-67, from a worklist and a set.
RECURSIVE RunLoop(_, _, _)
RunLoop(d, list, all) ==
    IF list = <<>> THEN all
    ELSE LET r == LoopBody(d, list, all, PopIndex(list))
         IN  RunLoop(d, r.to_process, r.all_3do_files)

\* to_process is the caller's list itself, with the track file put in front.
Begin3doAliased ==
    /\ pc = "idle" /\ fn = "collect_all_3do_files"
    /\ heap' = [heap EXCEPT ![additional_files] = <<track_file>> \o @]
    /\ to_process' = additional_files
    /\ all_3do_files' = {}
    /\ decoded' = <<>>
    /\ pc' = "loop"
    /\ UNCHANGED <<decoderVars, folderVars, mipVars, argVars, callVars, result>>

\* Lines 57-58: to_process is a new list, [track_file] + additional_files.
Begin3do ==
    /\ pc = "idle" /\ fn = "collect_all_3do_files"
    /\ heap' = [heap EXCEPT !.work = <<track_file>> \o heap[additional_files]]
    /\ to_process' = "work"
    /\ all_3do_files' = {}
    /\ decoded' = <<>>
    /\ pc' = "loop"
    /\ UNCHANGED <<decoderVars, folderVars, mipVars, argVars, callVars, result>>

\* Lines 60-67: one iteration of the while loop, taking the item at i.
StepAt(i) ==
    LET list == heap[to_process]
        r == LoopBody(dir, list, all_3do_files, i)
    IN  /\ heap' = [heap EXCEPT ![to_process] = r.to_process]
        /\ all_3do_files' = r.all_3do_files
        /\ decoded' = IF r.read THEN Append(decoded, list[i]) ELSE decoded
        /\ hdr' = IF r.read THEN r.hdr ELSE hdr
        /\ file' = IF r.read THEN Lookup(dir, list[i]) ELSE file
        /\ pc' = IF r.read /\ r.hdr.raised THEN "raised" ELSE "loop"
        /\ UNCHANGED <<enc, mip_hdr, folderVars, to_process, mipVars, argVars,
                       callVars, result>>

Step ==
    /\ pc = "loop" /\ heap[to_process] # <<>>
    /\ StepAt(PopIndex(heap[to_process]))

\* Line 60 with the worklist empty, line 69.
Return3do ==
    /\ pc = "loop" /\ heap[to_process] = <<>>
    /\ \E list \in Orderings(all_3do_files) : result' = list
    /\ pc' = "returned"
    /\ UNCHANGED <<decoderVars, folderVars, heap, closureVars, mipVars,
                   argVars, callVars>>

\* Line 75.
MipBegin ==
    /\ pc = "idle" /\ fn = "collect_all_mip_files"
    /\ all_mip_files' = {}
    /\ idx' = 1
    /\ pc' = "mip_loop"
    /\ UNCHANGED <<decoderVars, folderVars, heap, closureVars, argVars,
                   callVars, result>>

\* The set is assigned instead of updated.
MipStepOverwrite ==
    /\ pc = "mip_loop" /\ idx <= Len(three_do_files)
    /\ LET h == read_3do_header(Lookup(dir, three_do_files[idx]))
       IN  /\ all_mip_files' = Range(h.mip_files)
           /\ hdr' = h
           /\ file' = Lookup(dir, three_do_files[idx])
           /\ pc' = IF h.raised THEN "raised" ELSE "mip_loop"
    /\ idx' = idx + 1
    /\ UNCHANGED <<enc, mip_hdr, folderVars, heap, closureVars, argVars,
                   callVars, result>>

\* Lines 77-79: one iteration of the for loop.
MipStep ==
    /\ pc = "mip_loop" /\ idx <= Len(three_do_files)
    /\ LET h == read_3do_header(Lookup(dir, three_do_files[idx]))
       IN  /\ all_mip_files' = all_mip_files \cup Range(h.mip_files)
           /\ hdr' = h
           /\ file' = Lookup(dir, three_do_files[idx])
           /\ pc' = IF h.raised THEN "raised" ELSE "mip_loop"
    /\ idx' = idx + 1
    /\ UNCHANGED <<enc, mip_hdr, folderVars, heap, closureVars, argVars,
                   callVars, result>>

\* Line 81.
MipReturn ==
    /\ pc = "mip_loop" /\ idx > Len(three_do_files)
    /\ \E list \in Orderings(all_mip_files) : result' = list
    /\ pc' = "returned"
    /\ UNCHANGED <<decoderVars, folderVars, heap, closureVars, mipVars,
                   argVars, callVars>>

\* The worklist taken in any order instead of from its end.
AnyStep ==
    /\ pc = "loop"
    /\ \E i \in 1..Len(heap[to_process]) : StepAt(i)

\* str.lower() on Latin-1 text.
LowerChar(c) ==
    IF (c >= 65 /\ c <= 90) \/ (c >= 192 /\ c <= 222 /\ c # 215)
    THEN c + 32 ELSE c
Lower(s) == [i \in 1..Len(s) |-> LowerChar(s[i])]

\* str.endswith(suffix).
EndsWith(s, suffix) ==
    /\ Len(s) >= Len(suffix)
    /\ SubSeq(s, Len(s) - Len(suffix) + 1, Len(s)) = suffix

\* The used names are compared as given.
UnusedSetCaseSensitive(names, used) ==
    {Lower(f) : f \in {g \in names : EndsWith(Lower(g), Ext_mip)}}
        \ Range(used)

\* Lines 146-148.
UnusedSet(names, used) ==
    LET all_mip_files_in_folder ==
            {Lower(f) : f \in {g \in names : EndsWith(Lower(g), Ext_mip)}}
        used_mip_files_set == {Lower(f) : f \in Range(used)}
    IN  all_mip_files_in_folder \ used_mip_files_set

\* get_unused_mip_files(folder_path, used_mip_files).
GetUnused ==
    /\ pc = "idle" /\ fn = "get_unused_mip_files"
    /\ \E list \in Orderings(UnusedSet(listing, used_mip_files)) :
          result' = list
    /\ pc' = "returned"
    /\ UNCHANGED <<decoderVars, folderVars, heap, closureVars, mipVars,
                   argVars, callVars>>

(***************************************************************************)
(* Decoder runs: one file, encoded from bounded lists of sample names and  *)
(* cut at any length (or missing), handed to either decoder.               *)
(***************************************************************************)
MaxBlocks == 3

\* 'Tex1', NUL 'a', 'a' NUL, 'a' NUL 'b', 'a' 0x01
MipNameSamples ==
    {<<84, 101, 120, 49>>, <<0, 97>>, <<97, 0>>, <<97, 0, 98>>, <<97, 1>>}
\* 'a', 'abcdefgh', '', 'a' NUL 'b', NUL 'a', 'a' 0x01, 'a' 0xAD
TdoNameSamples ==
    {<<97>>, <<97, 98, 99, 100, 101, 102, 103, 104>>, <<>>,
     <<97, 0, 98>>, <<0, 97>>, <<97, 1>>, <<97, 173>>}
PmpBlockSample == <<112, 1, 0, 255>>

NoHdr == [raised |-> FALSE, mip_files |-> <<>>, three_do_files |-> <<>>,
          pending |-> TRUE]
NoMipHdr == [raised |-> FALSE, absent |-> TRUE, width |-> 0, height |-> 0,
             pending |-> TRUE]

NoEnc == [mips |-> <<>>, pmps |-> <<>>, tdos |-> <<>>, size |-> 0, cut |-> 0,
          exists |-> FALSE]

\* No folder is involved.
NoFolder ==
    /\ dir = <<>>
    /\ src = <<>>
    /\ listing = {}

\* No resolver call has been made.
NoCall ==
    /\ track_file = <<>>
    /\ additional_files = "default"
    /\ heap = [default |-> <<>>, arg |-> <<>>, work |-> <<>>]
    /\ to_process = "work"
    /\ all_3do_files = {}
    /\ decoded = <<>>
    /\ three_do_files = <<>>
    /\ idx = 1
    /\ all_mip_files = {}
    /\ used_mip_files = <<>>
    /\ result = <<>>
    /\ memo = {}
    /\ calls = 1

InitDecode ==
    /\ \E N \in 0..MaxBlocks : \E P \in 0..(MaxBlocks - N) :
       \E M \in 0..(MaxBlocks - N - P) :
       \E mips \in [1..N -> MipNameSamples] :
       \E tdos \in [1..M -> TdoNameSamples] :
          LET pmps == [i \in 1..P |-> PmpBlockSample]
              full == Encode(mips, pmps, tdos)
          IN  \E cut \in 0..Len(full) :
              \E ex \in (IF cut = Len(full) THEN BOOLEAN ELSE {TRUE}) :
                 /\ file = IF ex THEN FileOf(SubSeq(full, 1, cut)) ELSE NoFile
                 /\ enc = [mips |-> mips, pmps |-> pmps, tdos |-> tdos,
                           size |-> Len(full), cut |-> cut, exists |-> ex]
    /\ hdr = NoHdr
    /\ mip_hdr = NoMipHdr
    /\ fn \in {"read_3do_header", "read_mip_header"}
    /\ NoFolder
    /\ NoCall
    /\ pc = "idle"

\* A caller evaluates read_3do_header(path).
CallRead3doHeader ==
    /\ pc = "idle" /\ fn = "read_3do_header"
    /\ hdr' = read_3do_header(file)
    /\ pc' = "read_3do_header"
    /\ UNCHANGED <<file, mip_hdr, enc, folderVars, heap, closureVars, mipVars,
                   argVars, callVars, result>>

\* A caller evaluates read_mip_header(path).
CallReadMipHeader ==
    /\ pc = "idle" /\ fn = "read_mip_header"
    /\ mip_hdr' = read_mip_header(file)
    /\ pc' = "read_mip_header"
    /\ UNCHANGED <<file, hdr, enc, folderVars, heap, closureVars, mipVars,
                   argVars, callVars, result>>

NextDecode == CallRead3doHeader \/ CallReadMipHeader

SpecDecode == InitDecode /\ [][NextDecode]_vars

(***************************************************************************)
(* Claims about the decoders, checked under SpecDecode.                    *)
(***************************************************************************)
Returned3do == pc = "read_3do_header"
Complete == enc.exists /\ enc.cut = enc.size
Truncated == enc.exists /\ enc.cut < enc.size
WithExt(names, ext) == [i \in 1..Len(names) |-> names[i] \o ext]

\* C3: read_3do_header of a file with fewer bytes than its declared counts
\* require, wherever it ends, returns the empty pair and raises nothing.
C3_TruncatedYieldsEmptyPair ==
    (Returned3do /\ Truncated) => hdr = EmptyPair

NoOuterNul(n) == n = <<>> \/ (n[1] # NUL /\ n[Len(n)] # NUL)
PlainName(n) ==
    \A i \in 1..Len(n) : n[i] # NUL /\ IsPrintableChar(n[i])
RoundTripNames ==
    /\ \A i \in 1..Len(enc.mips) : NoOuterNul(enc.mips[i])
    /\ \A i \in 1..Len(enc.tdos) : PlainName(enc.tdos[i])

RECURSIVE Survivors(_)
Survivors(names) ==
    IF names = <<>> THEN <<>>
    ELSE LET t == Strip(Head(names))
         IN  IF (\E i \in 1..Len(t) : t[i] = NUL \/ ~IsPrintableChar(t[i]))
             THEN Survivors(Tail(names))
             ELSE <<t \o Ext_3do>> \o Survivors(Tail(names))

MaxEdges == 2        \* .3do references in all the headers of a folder
MaxExtra == 2        \* length of additional_files
MaxMips == 2         \* mip references in all the headers of a folder
MaxList == 2         \* length of three_do_files

NA == <<97>>
NB == <<98>>
NC == <<99>>
BaseNames == {NA, NB, NC}
FileName(n) == n \o Ext_3do
FileNames == {FileName(n) : n \in BaseNames}
MipNames == {<<84, 101, 120, 49>>, <<116, 50>>}      \* 'Tex1', 't2'

SeqsUpTo(S, n) == UNION {[1..k -> S] : k \in 0..n}

Kinds == {"ok", "missing", "short"}
Src(kind, mips, refs) == [kind |-> kind, mips |-> mips, refs |-> refs]
ShortFile ==
    FileOf(SubSeq(Encode(<<>>, <<>>, <<>>), 1, SkipLen + CountLen + 2))
MakeFile(s) ==
    CASE s.kind = "missing" -> NoFile
      [] s.kind = "short" -> ShortFile
      [] OTHER -> FileOf(Encode(s.mips, <<PmpBlockSample>>, s.refs))

FolderSrc(sa, sb, sc) ==
    [f \in FileNames |->
        IF f = FileName(NA) THEN sa ELSE IF f = FileName(NB) THEN sb ELSE sc]

\* The folders whose headers hold at most n names of Pool in all, as .3do
\* references (mips = FALSE) or as mip references (mips = TRUE); a file that
\* is missing or cut short holds none.
Shapes(n, kinds) ==
    {s \in [kind : [1..3 -> kinds], len : [1..3 -> 0..n]] :
        /\ s.len[1] + s.len[2] + s.len[3] <= n
        /\ \A i \in 1..3 : s.kind[i] # "ok" => s.len[i] = 0}
FolderSrcs(Pool, n, mips, kinds) ==
    UNION {
        {IF mips
         THEN FolderSrc(Src(s.kind[1], xa, <<NB>>), Src(s.kind[2], xb, <<NB>>),
                        Src(s.kind[3], xc, <<NB>>))
         ELSE FolderSrc(Src(s.kind[1], <<>>, xa), Src(s.kind[2], <<>>, xb),
                        Src(s.kind[3], <<>>, xc)) :
            xa \in [1..s.len[1] -> Pool], xb \in [1..s.len[2] -> Pool],
            xc \in [1..s.len[3] -> Pool]} :
        s \in Shapes(n, kinds)}

\* The folder written from s.
Folder(s) ==
    /\ src = s
    /\ dir = [f \in DOMAIN s |-> MakeFile(s[f])]
    /\ listing = {f \in DOMAIN s : s[f].kind # "missing"}

Idle ==
    /\ enc = NoEnc
    /\ hdr = NoHdr
    /\ mip_hdr = NoMipHdr
    /\ to_process = "work"
    /\ all_3do_files = {}
    /\ decoded = <<>>
    /\ idx = 1
    /\ all_mip_files = {}
    /\ result = <<>>
    /\ memo = {}
    /\ calls = 1
    /\ pc = "idle"

\* The caller passes additional_files (its own list) or leaves it out.
ClosureArgs(track, extra, ref) ==
    /\ fn = "collect_all_3do_files"
    /\ track_file = track
    /\ additional_files = ref
    /\ heap = [default |-> <<>>, arg |-> extra, work |-> <<>>]
    /\ three_do_files = <<>>
    /\ used_mip_files = <<>>
    /\ file = NoFile

\* The caller hands a decoder a path of the folder, or one that names no file.
DecoderArgs(f, path) ==
    /\ fn = f
    /\ file = Lookup(dir, path)
    /\ track_file = <<>>
    /\ additional_files = "default"
    /\ heap = [default |-> <<>>, arg |-> <<>>, work |-> <<>>]
    /\ three_do_files = <<>>
    /\ used_mip_files = <<>>

(***************************************************************************)
(* Closure runs: on a folder, one call of collect_all_3do_files, or of a   *)
(* decoder on one path.                                                    *)
(***************************************************************************)
InitClosure ==
    /\ \E s \in FolderSrcs(BaseNames, MaxEdges, FALSE, {"ok", "missing"}) : Folder(s)
    /\ \E extra \in SeqsUpTo(FileNames, MaxExtra) :
       \E ref \in (IF extra = <<>> THEN {"default", "arg"} ELSE {"arg"}) :
          ClosureArgs(FileName(NA), extra, ref)
    /\ Idle

Init ==
    /\ \E s \in FolderSrcs(BaseNames, MaxEdges, FALSE, Kinds) : Folder(s)
    /\ \/ \E extra \in SeqsUpTo(FileNames, MaxExtra) :
          \E ref \in (IF extra = <<>> THEN {"default", "arg"} ELSE {"arg"}) :
             ClosureArgs(FileName(NA), extra, ref)
       \/ \E f \in {"read_3do_header", "read_mip_header"} :
          \E path \in FileNames \cup {<<>>} : DecoderArgs(f, path)
    /\ Idle

Next ==
    \/ Begin3do
    \/ Step
    \/ Return3do
    \/ CallRead3doHeader
    \/ CallReadMipHeader

Spec == Init /\ [][Next]_vars

NextAnyOrder == Begin3do \/ AnyStep \/ Return3do

SpecAnyOrder == InitClosure /\ [][NextAnyOrder]_vars

(***************************************************************************)
(* Claims about collect_all_3do_files.                                     *)
(***************************************************************************)
Seeds == {track_file} \cup Range(heap[additional_files])
Returned == pc = "returned"
NoDuplicates(list) == Len(list) = Cardinality(Range(list))

\* The names reachable from S along the references read_3do_header returns.
Refs(f) == Range(read_3do_header(Lookup(dir, f)).three_do_files)
RECURSIVE Reach(_)
Reach(S) ==
    LET T == S \cup UNION {Refs(f) : f \in S}
    IN  IF T = S THEN S ELSE Reach(T)

\* C1: collect_all_3do_files returns exactly the names reachable from the
\* root and the extra roots along the references read_3do_header returns,
\* each once, missing and undecodable roots included.
C1_ExactClosure ==
    Returned => (Range(result) = Reach(Seeds) /\ NoDuplicates(result))

C1_Witness ==
    /\ Returned
    /\ \E f \in Range(result) : f \notin Seeds /\ src[f].kind # "ok"
    /\ \E f \in FileNames : f \notin Range(result)

CycleCase ==
    /\ src[FileName(NA)] = Src("ok", <<>>, <<NB>>)
    /\ src[FileName(NB)] = Src("ok", <<>>, <<NA>>)
    /\ Seeds = {FileName(NA)}

\* Every name a call can meet, and the longest reference list of the folder.
Universe == FileNames \cup Seeds
Widest ==
    CHOOSE n \in {Len(src[f].refs) : f \in DOMAIN src} :
        \A f \in DOMAIN src : Len(src[f].refs) <= n

\* The measure of the while loop: an iteration either adds a name to the set
\* (and pushes at most Widest items) or only shortens the worklist.
Variant ==
    Cardinality(Universe \ all_3do_files) * (Widest + 1)
        + Len(heap[to_process])

\* C2: collect_all_3do_files terminates on every finite reference graph,
\* cycles, self references and repeated references included: every iteration
\* of its loop lowers a natural-number measure, and the loop ends when the
\* worklist is empty; no header is decoded twice in a call; on the cycle
\* A -> B -> A from A it returns exactly {A, B}.
C2_TerminatesDecodingOnce ==
    /\ [][(pc = "loop" /\ pc' = "loop") => (Variant' < Variant)]_vars
    /\ [](pc = "loop" => (Variant >= 0 /\ all_3do_files \subseteq Universe))
    /\ []((pc = "loop" /\ heap[to_process] = <<>>) => ENABLED Return3do)
    /\ [](NoDuplicates(decoded))
    /\ []((Returned /\ CycleCase) =>
            (Range(result) = {FileName(NA), FileName(NB)} /\ Len(result) = 2))

C2_Witness ==
    /\ Returned /\ CycleCase
    /\ decoded = <<FileName(NA), FileName(NB)>>

\* The names reachable from S in the folder as it was written: only a file
\* that exists and holds its whole header has references.
SrcRefs(f) ==
    IF f \in DOMAIN src /\ src[f].kind = "ok"
    THEN {FileName(n) : n \in Range(src[f].refs)} ELSE {}
RECURSIVE SrcReach(_)
SrcReach(S) ==
    LET T == S \cup UNION {SrcRefs(f) : f \in S}
    IN  IF T = S THEN S ELSE SrcReach(T)

Unreadable(f) == ~f.exists \/ Len(f.data) < SkipLen + 2 * CountLen

\* C8: a missing file never raises out of the decoders: read_3do_header
\* returns ([], []), read_mip_header returns (None, None), also for a .mip
\* file shorter than 16 bytes; in collect_all_3do_files such a file stays in
\* the closure, adds no references, and the rest of the worklist is still
\* processed.
C8_MissingFilesRecovered ==
    /\ pc # "raised"
    /\ (pc = "read_3do_header" /\ ~file.exists) => hdr = EmptyPair
    /\ (pc = "read_mip_header" /\ Unreadable(file)) => mip_hdr = AbsentMip
    /\ (pc = "loop" /\ decoded # <<>> /\ ~file.exists) =>
          /\ hdr = EmptyPair
          /\ decoded[Len(decoded)] \in all_3do_files
    /\ Returned => Range(result) = SrcReach(Seeds)

C8_Witness ==
    /\ Returned
    /\ Len(heap[additional_files]) = 2
    /\ src[heap[additional_files][2]].kind = "missing"
    /\ src[track_file].kind = "ok" /\ src[track_file].refs # <<>>
    /\ Cardinality(Range(result)) = 3

Perms(s) ==
    {[i \in 1..Len(s) |-> s[q[i]]] : q \in Permutations(1..Len(s))}

\* C9: the set returned does not depend on the order in which worklist
\* items are taken, nor on the order of the extra roots: taking the items in
\* any order yields the set the code's stack order yields, for every
\* permutation of additional_files.
C9_OrderIndependent ==
    Returned =>
        \A p \in Perms(heap[additional_files]) :
            Range(result) = RunLoop(dir, <<track_file>> \o p, {})

C9_Witness ==
    /\ Returned
    /\ Len(decoded) = 3
    /\ Len(heap[additional_files]) = 2
    /\ decoded[1] # heap[additional_files][2]
    /\ heap[additional_files][1] # heap[additional_files][2]
    /\ src[track_file].refs # <<>>

(***************************************************************************)
(* Mip runs: one call of collect_all_mip_files on a folder.                *)
(***************************************************************************)
InitMip ==
    /\ \E s \in FolderSrcs(MipNames, MaxMips, TRUE, Kinds) : Folder(s)
    /\ \E list \in SeqsUpTo(FileNames, MaxList) :
          /\ fn = "collect_all_mip_files"
          /\ three_do_files = list
    /\ track_file = <<>>
    /\ additional_files = "default"
    /\ heap = [default |-> <<>>, arg |-> <<>>, work |-> <<>>]
    /\ used_mip_files = <<>>
    /\ file = NoFile
    /\ Idle

NextMip == MipBegin \/ MipStep \/ MipReturn

SpecMip == InitMip /\ [][NextMip]_vars

\* The mip names of file f in the folder as it was written.
SrcMips(f) ==
    IF f \in DOMAIN src /\ src[f].kind = "ok"
    THEN {m \o Ext_mip : m \in Range(src[f].mips)} ELSE {}

\* C7: collect_all_mip_files returns, each once, exactly the union of the
\* mip lists read_3do_header returns for the names given; a missing or
\* undecodable file adds nothing and leaves the other names' mips in place.
C7_UnionOfMipLists ==
    /\ pc # "raised"
    /\ Returned =>
          /\ NoDuplicates(result)
          /\ Range(result) =
                UNION {Range(read_3do_header(Lookup(dir, f)).mip_files) :
                          f \in Range(three_do_files)}
          /\ Range(result) = UNION {SrcMips(f) : f \in Range(three_do_files)}

C7_Witness ==
    /\ Returned
    /\ Len(three_do_files) = 2
    /\ src[three_do_files[1]].kind = "ok"
    /\ Len(src[three_do_files[1]].mips) = 1
    /\ src[three_do_files[2]].kind = "missing"
    /\ Len(result) = 1

(***************************************************************************)
(* Unused runs: one call of get_unused_mip_files on a listing.             *)
(***************************************************************************)
MaxUsed == 2         \* length of used_mip_files

Tex1_mip == <<84, 101, 120, 49, 46, 109, 105, 112>>      \* 'Tex1.mip'
tex1_MIP == <<116, 101, 120, 49, 46, 77, 73, 80>>        \* 'tex1.MIP'
T2_Mip == <<84, 50, 46, 77, 105, 112>>                   \* 'T2.Mip'
t2_mip == <<116, 50, 46, 109, 105, 112>>                 \* 't2.mip'
zz_mip == <<122, 122, 46, 109, 105, 112>>                \* 'zz.mip'
a_3do == <<97, 46, 51, 100, 111>>                        \* 'a.3do'
mip == <<109, 105, 112>>                                 \* 'mip'
ListingPool == {Tex1_mip, tex1_MIP, T2_Mip, zz_mip, a_3do, mip}
UsedPool == {Tex1_mip, tex1_MIP, t2_mip, a_3do}

InitUnused ==
    /\ dir = <<>>
    /\ src = <<>>
    /\ \E names \in SUBSET ListingPool : listing = names
    /\ \E used \in SeqsUpTo(UsedPool, MaxUsed) : used_mip_files = used
    /\ fn = "get_unused_mip_files"
    /\ track_file = <<>>
    /\ additional_files = "default"
    /\ heap = [default |-> <<>>, arg |-> <<>>, work |-> <<>>]
    /\ three_do_files = <<>>
    /\ file = NoFile
    /\ Idle

NextUnused == GetUnused

SpecUnused == InitUnused /\ [][NextUnused]_vars

\* The last four characters are '.mip' in any letter case.
IsMipName(f) ==
    /\ Len(f) >= Len(Ext_mip)
    /\ \A i \in 1..Len(Ext_mip) :
          LowerChar(f[Len(f) - Len(Ext_mip) + i]) = Ext_mip[i]
SameName(f, g) ==
    /\ Len(f) = Len(g)
    /\ \A i \in 1..Len(f) : LowerChar(f[i]) = LowerChar(g[i])
IsUsed(f) == \E i \in 1..Len(used_mip_files) : SameName(f, used_mip_files[i])

MaxCalls == 3

Tex1 == <<84, 101, 120, 49>>
t2 == <<116, 50>>

\* a.3do uses Tex1 and b.3do, b.3do uses t2, c.3do is missing; and a cycle
\* a -> b -> a with a repeated reference, c.3do cut short.
SampleFolders ==
    {FolderSrc(Src("ok", <<Tex1>>, <<NB>>), Src("ok", <<t2>>, <<>>),
               Src("missing", <<>>, <<>>)),
     FolderSrc(Src("ok", <<Tex1, t2>>, <<NB, NB>>), Src("ok", <<Tex1>>, <<NA>>),
               Src("short", <<>>, <<>>))}

CallOf(f, track, ref, extra, list) ==
    [fn |-> f, track |-> track, ref |-> ref, extra |-> extra, list |-> list]
SampleCalls ==
    {CallOf("collect_all_3do_files", FileName(NA), "default", <<>>, <<>>),
     CallOf("collect_all_3do_files", FileName(NA), "arg",
            <<FileName(NC), FileName(NB)>>, <<>>),
     CallOf("collect_all_3do_files", FileName(NB), "arg", <<FileName(NC)>>, <<>>),
     CallOf("collect_all_3do_files", FileName(NC), "default", <<>>, <<>>),
     CallOf("collect_all_mip_files", <<>>, "default", <<>>,
            <<FileName(NA), FileName(NC), FileName(NB)>>),
     CallOf("collect_all_mip_files", <<>>, "default", <<>>, <<FileName(NB)>>)}

\* The call being made, as the caller wrote it.
ThisCall ==
    CallOf(fn, track_file, additional_files,
           IF additional_files = "arg" THEN heap.arg ELSE <<>>, three_do_files)

InitCalls ==
    /\ \E s \in SampleFolders : Folder(s)
    /\ \E c \in SampleCalls :
          /\ fn = c.fn
          /\ track_file = c.track
          /\ additional_files = c.ref
          /\ heap = [default |-> <<>>, arg |-> c.extra, work |-> <<>>]
          /\ three_do_files = c.list
    /\ used_mip_files = <<>>
    /\ file = NoFile
    /\ Idle

\* The caller notes what the call returned and makes another call, passing
\* a list of its own or leaving additional_files out.
NewCall ==
    /\ pc = "returned" /\ calls < MaxCalls
    /\ memo' = memo \cup {[call |-> ThisCall, set |-> Range(result)]}
    /\ calls' = calls + 1
    /\ \E c \in SampleCalls :
          /\ fn' = c.fn
          /\ track_file' = c.track
          /\ additional_files' = c.ref
          /\ heap' = [heap EXCEPT !.arg = c.extra]
          /\ three_do_files' = c.list
    /\ to_process' = "work"
    /\ all_3do_files' = {}
    /\ decoded' = <<>>
    /\ idx' = 1
    /\ all_mip_files' = {}
    /\ result' = <<>>
    /\ pc' = "idle"
    /\ UNCHANGED <<decoderVars, folderVars, used_mip_files>>

NextCalls ==
    \/ Begin3do
    \/ Step
    \/ Return3do
    \/ MipBegin
    \/ MipStep
    \/ MipReturn
    \/ NewCall

SpecCalls == InitCalls /\ [][NextCalls]_vars

\* C10: the calls keep no state and change none of their arguments: while a
\* call runs, the list passed as additional_files, the shared default list
\* and three_do_files keep their contents; the default list is as it was
\* defined; and a call with the arguments of an earlier call returns the set
\* that call returned, whatever calls were made in between.
C10_NoStateBetweenCalls ==
    /\ [][pc # "returned" =>
             /\ heap'.arg = heap.arg
             /\ heap'.default = heap.default
             /\ three_do_files' = three_do_files]_vars
    /\ [](heap.default = <<>>)
    /\ [](Returned =>
             \A m \in memo : m.call = ThisCall => m.set = Range(result))

C10_Witness ==
    /\ Returned
    /\ calls = 3
    /\ ThisCall.fn = "collect_all_3do_files" /\ ThisCall.ref = "default"
    /\ Cardinality(Range(result)) = 2
    /\ \E m \in memo : m.call = ThisCall
    /\ \E m \in memo : m.call.fn = "collect_all_3do_files" /\ m.call.ref = "arg"

====
